---- MODULE Spec2Model ----
(***************************************************************************)
(* The embedded document store of the backend: TinyDBHandler               *)
(* (backend/app/database/tinydb_handler.py) over one collection file, with *)
(* the schemas of backend/app/database/schemas.py.                         *)
(*                                                                         *)
(* The handler keeps its records in a TinyDB default table behind a        *)
(* CachingMiddleware: `cache` is the in-memory table, `file` the table in  *)
(* the backing JSON file, `modified` the middleware's count of writes not  *)
(* yet flushed and `next_id` the table's cached next document id (0 stands *)
(* for Python's None).  A table is a function from document ids (the       *)
(* internal sequence numbers) to records; a record is a function from      *)
(* field names to values.  Every value is a string; NullValue stands for a *)
(* JSON value that is not a string.                                        *)
(***************************************************************************)
EXTENDS Integers, Sequences, FiniteSets, TLC

\* ------------------------------------------------------------- bounds
\* insert is not attempted once the next document id would exceed MaxDocId
MaxDocId == 2
\* the clock (datetime.utcnow()) takes the values 0..MaxTime
MaxTime == 1
\* delete/truncate are not attempted once this many writes are unflushed
MaxUnflushed == 1
\* at most this many timestamped backup files are kept in backups/
MaxBackups == 1
\* handlers constructed over the projects file in one run
MaxInstances == 2
\* records of the project_files collection
MaxFiles == 2

\* CachingMiddleware.WRITE_CACHE_SIZE: the middleware flushes by itself
\* after this many unflushed writes
WRITE_CACHE_SIZE == 1000

VARIABLES
    cache,      \* CachingMiddleware.cache: the table in memory
    file,       \* the table stored in the backing file db_path
    modified,   \* CachingMiddleware._cache_modified_count
    next_id,    \* Table._next_id (0 = None)
    backups,    \* the backup files: path -> table
    now,        \* the clock
    last,       \* the last call: operation, arguments, result, exception
    hist,       \* history of the run, read only by the properties
    registry,   \* the module global projects_db and the instances constructed
    callers,    \* each thread's position in get_projects_db
    threads,    \* each thread's position in update
    opened,     \* whether the handler's TinyDB holds its file open
    schema,     \* TinyDBHandler.schema: the collection the handler checks for
    project_files,  \* the table of the project_files collection
    engines     \* for each collection, the state of its registered handler

vars == <<cache, file, modified, next_id, backups, now, last,
          registry, callers, threads, opened, schema, project_files, engines>>

\* the state outside the projects handler, its registry entry and its callers
Rest == <<opened, schema, project_files, engines>>

\* ------------------------------------------------------------- values
Ids == {"p1", "p2"}
Threads == {"t1", "t2"}
Collections ==
    {"projects", "templates", "project_files", "orchestration_sessions",
     "collaboration_sessions", "generated_files", "project_structure",
     "task_definitions"}
DocIds == 1..MaxDocId
NullValue == "<null>"
CallerTime == "2024-01-01T00:00:00"

\* datetime.utcnow().isoformat()
IsoFormat(t) == ToString(t)
\* str(uuid.uuid4()) for the record stored under document id d
Uuid4(d) == "uuid-" \o ToString(d)

EmptyRec == [f \in {} |-> ""]
EmptyTable == [d \in {} |-> EmptyRec]
\* Python's None as the result of a lookup
None == [None |-> "None"]

Has(r, f) == f \in DOMAIN r
\* {**a, **b} and dict.update
Merge(a, b) == [f \in DOMAIN a \cup DOMAIN b |-> IF f \in DOMAIN b THEN b[f] ELSE a[f]]

Max(S) == CHOOSE x \in S : \A y \in S : y <= x
Min(S) == CHOOSE x \in S : \A y \in S : x <= y

\* ------------------------------------------------------------- schema
IsString(v) == v # NullValue
StatusEnum == {"draft", "active", "completed", "archived", "cancelled"}
RequiredFields == {"id", "name", "status", "created_at", "updated_at"}

\* jsonschema.validate(instance=r, schema=PROJECT_SCHEMA), for the fields
\* the model's records carry
RequiredPresent(r) == \A f \in RequiredFields : Has(r, f)

PropertiesValid(r) ==
    /\ Has(r, "id") => IsString(r["id"])
    /\ Has(r, "name") =>
          IsString(r["name"]) /\ Len(r["name"]) >= 1 /\ Len(r["name"]) <= 200
    /\ Has(r, "status") => IsString(r["status"]) /\ r["status"] \in StatusEnum
    /\ Has(r, "created_at") => IsString(r["created_at"])
    /\ Has(r, "updated_at") => IsString(r["updated_at"])

SchemaValid(r) == RequiredPresent(r) /\ PropertiesValid(r)

\* TASK_DEFINITIONS_SCHEMA: its required fields, the properties it declares
\* (additionalProperties is False) and those of them that must be strings;
\* task_number is an integer in every record of the model
TaskRequired ==
    {"id", "project_id", "task_number", "title", "description", "category",
     "estimated_effort"}
TaskProperties ==
    TaskRequired \cup
    {"priority", "acceptance_criteria", "subtasks", "dependencies",
     "referenced_files", "affected_components", "estimated_duration",
     "complexity_level", "technical_notes", "testing_requirements",
     "documentation_requirements", "created_by_agents", "status",
     "created_at"}
TaskStrings ==
    {"id", "project_id", "title", "description", "category", "priority",
     "estimated_effort", "complexity_level", "status"}

TaskDefinitionsValid(r) ==
    /\ \A f \in TaskRequired : Has(r, f)
    /\ DOMAIN r \subseteq TaskProperties
    /\ \A f \in DOMAIN r \cap TaskStrings : IsString(r[f])

\* PROJECT_STRUCTURE_SCHEMA: additionalProperties is False as well;
\* root_structure is an object with name, type and path
StructureRequired == {"id", "project_id", "root_structure"}
StructureProperties ==
    StructureRequired \cup
    {"total_files", "total_folders", "structure_metadata", "generated_at"}
StructureStrings == {"id", "project_id"}
RootRequired == {"name", "type", "path"}

ProjectStructureValid(r) ==
    /\ \A f \in StructureRequired : Has(r, f)
    /\ DOMAIN r \subseteq StructureProperties
    /\ \A f \in DOMAIN r \cap StructureStrings : IsString(r[f])
    /\ \A f \in RootRequired :
          Has(r["root_structure"], f) /\ IsString(r["root_structure"][f])

\* the collections whose handler the model runs, SCHEMAS[schema] being the
\* schema it was constructed with
StrictSchemas == {"task_definitions", "project_structure"}


\* ------------------------------------------------------------- tables
Put(t, d, r) == [x \in DOMAIN t \cup {d} |-> IF x = d THEN r ELSE t[x]]
\* faulty variant: a removal that matched empties the table
DropAll(t, S) == IF S = {} THEN t ELSE [x \in {} |-> t[x]]
\* Table.remove: the table without the documents S
Drop(t, S) == [x \in DOMAIN t \ S |-> t[x]]

\* the documents a Query().id == id condition selects
Matching(t, id) == {d \in DOMAIN t : Has(t[d], "id") /\ t[d]["id"] = id}

\* faulty variant: the last match
GetByStrIdLast(t, id) == IF Matching(t, id) = {} THEN None ELSE t[Max(Matching(t, id))]
\* Table.search(Query().id == id)[0]: tables are kept in document id order
GetByStrId(t, id) == IF Matching(t, id) = {} THEN None ELSE t[Min(Matching(t, id))]
\* Table.get(doc_id=n)
GetByDocId(t, n) == IF n \in DOMAIN t THEN t[n] ELSE None

RECURSIVE RowsFrom(_, _)
RowsFrom(t, S) ==
    IF S = {} THEN <<>> ELSE <<t[Min(S)]>> \o RowsFrom(t, S \ {Min(S)})
\* Table.all(): the records in table order
GetAll(t) == RowsFrom(t, DOMAIN t)
\* Table.search(Query().id == id): the matching records in table order
Search(t, id) == RowsFrom(t, Matching(t, id))
\* len(self.db)
Count(t) == Cardinality(DOMAIN t)

\* Table._get_next_id()
NextDocId ==
    IF next_id # 0 THEN next_id
    ELSE IF DOMAIN cache = {} THEN 1 ELSE Max(DOMAIN cache) + 1

\* ------------------------------------------------------------- storage
Storage == [cache |-> cache, file |-> file, modified |-> modified]

\* faulty variant: flush leaves the backing file alone
CacheFlushNever(st) == st

\* CachingMiddleware.flush()
CacheFlush(st) ==
    IF st.modified > 0
    THEN [cache |-> st.cache, file |-> st.cache, modified |-> 0]
    ELSE st

\* faulty variant: every write goes through to the backing file
CacheWriteThrough(st, t) == [cache |-> t, file |-> t, modified |-> 0]

\* CachingMiddleware.write(data)
CacheWrite(st, t) ==
    LET w == [cache |-> t, file |-> st.file, modified |-> st.modified + 1]
    IN IF w.modified >= WRITE_CACHE_SIZE THEN CacheFlush(w) ELSE w

\* faulty variant: a read loads the table from the backing file again
CacheReadReloads(st) == [cache |-> st.file, file |-> st.file, modified |-> 0]

\* CachingMiddleware.read(): the cached table, once loaded, is returned
CacheRead(st) == st

SetStorage(st) ==
    /\ cache' = st.cache
    /\ file' = st.file
    /\ modified' = st.modified

\* ------------------------------------------------------------- results
\* a call that returned: ok is the boolean a call returns, num the number
\* insert returns; a delete also records the identifier it was given
Call(op) == [op |-> op, err |-> "none", ok |-> FALSE, num |-> 0, id |-> ""]
Returned(c, ok) == [c EXCEPT !.ok = ok]
Raised(c, e) == [c EXCEPT !.err = e]

\* faulty variant: the insert metadata overwrite what the caller supplied
StampedAlways(r, d) ==
    Merge(r, [created_at |-> IsoFormat(now), updated_at |-> IsoFormat(now),
              id |-> IF Has(r, "id") THEN r["id"] ELSE Uuid4(d)])

\* the insert metadata: created_at, updated_at and id only if absent
Stamped(r, d) ==
    LET a == IF Has(r, "created_at") THEN r
             ELSE Merge(r, [created_at |-> IsoFormat(now)])
        b == IF Has(a, "updated_at") THEN a
             ELSE Merge(a, [updated_at |-> IsoFormat(now)])
    IN IF Has(b, "id") THEN b ELSE Merge(b, [id |-> Uuid4(d)])

\* faulty variant: an updated_at the patch carries is kept
PatchedKeepsCallers(patch) == Merge([updated_at |-> IsoFormat(now)], patch)

\* the patch as written by update: the caller's fields and the timestamp
Patched(patch) == Merge(patch, [updated_at |-> IsoFormat(now)])

\* faulty variant: update replaces the documents by the patch
UpdateDocsReplace(t, S, fields) ==
    [d \in DOMAIN t |-> IF d \in S THEN fields ELSE t[d]]

\* Table.update(fields, ...) on the documents S
UpdateDocs(t, S, fields) ==
    [d \in DOMAIN t |-> IF d \in S THEN Merge(t[d], fields) ELSE t[d]]

\* faulty variant: the schema check is skipped
ValidateDataSkipped(r) == TRUE

\* _validate_data(data): the handler's schema check
ValidateData(r) ==
    IF schema = "task_definitions" THEN TaskDefinitionsValid(r)
    ELSE IF schema = "project_structure" THEN ProjectStructureValid(r)
    ELSE SchemaValid(r)

\* faulty variant: update validates the stored document instead of the merged view
MergedViewExistingOnly(existing, patch) == existing

\* {**existing_doc, **data}: the view update validates
MergedView(existing, patch) == Merge(existing, patch)

\* faulty variant: delete removes the first match only
RemovedFirst(t, id) == IF Matching(t, id) = {} THEN {} ELSE {Min(Matching(t, id))}

\* the documents delete(id) removes for a string id
RemovedBy(t, id) == Matching(t, id)

\* faulty variant: update patches the first match only
UpdatedFirst(t, id) == IF Matching(t, id) = {} THEN {} ELSE {Min(Matching(t, id))}

\* the documents update(id, data) patches for a string id:
\* self.db.update(data, Query().id == doc_id)
UpdatedBy(t, id) == Matching(t, id)

\* ------------------------------------------------------------- files
DefaultBackupPath(t) == "backups/projects_backup_" \o ToString(t) \o ".json"
PreRestorePath == "projects.json.pre_restore_backup"
MissingPath == "backups/missing.json"
EarlierBackupPath == "backups/projects_backup_earlier.json"
TimestampedPaths == {DefaultBackupPath(t) : t \in 0..MaxTime}
NoFiles == [p \in {} |-> EmptyTable]

\* shutil.copy2(self.db_path, backup_path)
CopyTo(files, path, t) == [p \in DOMAIN files \cup {path} |-> IF p = path THEN t ELSE files[p]]

\* ------------------------------------------------------------- inputs
ValidRec(id) ==
    [id |-> id, name |-> "Demo", status |-> "draft",
     created_at |-> CallerTime, updated_at |-> CallerTime]

InsertInputs ==
    {ValidRec(i) : i \in Ids}
    \cup {[id |-> "p2"],
          [ValidRec("p2") EXCEPT !.name = NullValue],
          [name |-> "Demo", status |-> "draft",
           created_at |-> CallerTime, updated_at |-> CallerTime],
          [id |-> "p1", name |-> "Demo", status |-> "draft"]}

PatchInputs ==
    {[status |-> "archived"], [status |-> "bogus"], [id |-> "p2"], ValidRec("p1")}

\* the patches of the runs in which time passes
ClockPatches == {[status |-> "archived"], [id |-> "p2"], ValidRec("p1")}

\* the inputs of the runs on task_definitions and project_structure
TaskRec(id) ==
    [id |-> id, project_id |-> "p1", task_number |-> 1, title |-> "Task",
     description |-> "Do it", category |-> "backend",
     estimated_effort |-> "1d"]
StructureRec(id) ==
    [id |-> id, project_id |-> "p1",
     root_structure |-> [name |-> "root", type |-> "folder", path |-> "/"]]

StrictInserts ==
    {TaskRec(i) : i \in Ids}
    \cup {StructureRec(i) : i \in Ids}
    \cup {Merge(TaskRec("p1"), [created_at |-> CallerTime]),
          Merge(TaskRec("p2"), [updated_at |-> CallerTime]),
          [TaskRec("p2") EXCEPT !.title = NullValue],
          Merge(StructureRec("p2"), [total_files |-> 3]),
          [id |-> "p2", project_id |-> "p1"]}

StrictPatches == {[status |-> "done"], [total_files |-> 3]}

\* the inputs of the runs with backup and restore
BackupInserts == {ValidRec(i) : i \in Ids}
BackupPatches == {[id |-> "p2"]}

\* the patches of the runs with threads
ThreadPatches == {[status |-> "archived"], [status |-> "bogus"]}

\* the backup file an earlier process left in backups/
EarlierBackup == 1 :> ValidRec("p1")

\* the collection files a handler may be constructed over: a new file, or
\* the file an earlier process left
InitialFiles == {EmptyTable, 1 :> ValidRec("p1"), 2 :> ValidRec("p2")}

\* ------------------------------------------------------------- state
\* issued: the largest sequence number an insert has returned;
\* snap: for each backup file backup() wrote, the cached table at that call
NoHistory == [issued |-> 0, snap |-> NoFiles]

\* the module globals at import: projects_db = None, nothing constructed;
\* first: the instance the first accessor call returned (0 = none yet)
NoRegistry == [projects_db |-> 0, made |-> 0, first |-> 0]

\* a thread outside get_projects_db; built: the instance it constructed,
\* got: the instance its last call returned (0 = None)
NoCall == [pc |-> "idle", built |-> 0, got |-> 0]

\* a thread outside update; id, num, patch: the arguments of the call it
\* is in, existing: the document its lookup found
NoUpdate == [pc |-> "idle", id |-> "", num |-> 0, patch |-> EmptyRec,
             existing |-> None]

\* a collection whose accessor has not been called: its global is None
NoEngine == "none"

\* TinyDBHandler.__init__ over the collection file
InitHandler ==
    /\ file \in InitialFiles
    /\ cache = file
    /\ modified = 0
    /\ next_id = 0
    /\ now = 0
    /\ last = Call("init")
    /\ hist = NoHistory
    /\ registry = NoRegistry
    /\ callers = [t \in Threads |-> NoCall]
    /\ threads = [t \in Threads |-> NoUpdate]
    /\ opened = TRUE
    /\ project_files = EmptyTable
    /\ engines = [c \in Collections |-> NoEngine]

Init == InitHandler /\ backups = NoFiles /\ schema = "projects"

\* a handler constructed with one of the two strict schemas over a file
\* that holds no record yet
InitStrict ==
    /\ InitHandler
    /\ file = EmptyTable
    /\ backups = NoFiles
    /\ schema \in StrictSchemas

\* a handler constructed while a backup of an earlier process is on disk
InitWithBackup ==
    /\ InitHandler
    /\ backups = EarlierBackupPath :> EarlierBackup
    /\ schema = "projects"

\* ------------------------------------------------------------- operations
\* insert(data)
Insert(r) ==
    LET c == Call("insert")
        d == NextDocId
        doc == Stamped(r, d)
        st == CacheFlush(CacheWrite(Storage, Put(cache, d, doc)))
    IN IF ~ValidateData(r)
       THEN /\ last' = Raised(c, "ValidationException")
            /\ UNCHANGED <<cache, file, modified, next_id, backups, now>>
       ELSE /\ d <= MaxDocId
            /\ next_id' = d + 1
            /\ IF d \in DOMAIN cache
               THEN /\ last' = Raised(c, "DatabaseException")
                    /\ UNCHANGED <<cache, file, modified>>
               ELSE /\ SetStorage(st)
                    /\ last' = [c EXCEPT !.num = d]
            /\ UNCHANGED <<backups, now>>

\* faulty variant: update goes on without an existing document
MissingNever(existing) == FALSE

\* if not existing_doc: the lookup of update found no document
Missing(existing) == existing = None

\* the body of update once the existing document and the documents the
\* storage call addresses are known
UpdateWith(existing, S, patch) ==
    LET c == Call("update")
        st == CacheFlush(CacheWrite(Storage, UpdateDocs(cache, S, Patched(patch))))
    IN IF Missing(existing)
       THEN /\ last' = Returned(c, FALSE)
            /\ UNCHANGED <<cache, file, modified>>
       ELSE IF ~ValidateData(MergedView(existing, patch))
       THEN /\ last' = Raised(c, "ValidationException")
            /\ UNCHANGED <<cache, file, modified>>
       ELSE /\ SetStorage(st)
            /\ last' = Returned(c, S # {})

\* update(doc_id, data) for a string
Update(id, patch) ==
    /\ UpdateWith(GetByStrId(cache, id), UpdatedBy(cache, id), patch)
    /\ UNCHANGED <<next_id, backups, now>>

\* update(doc_id, data) for an integer
UpdateByDoc(n, patch) ==
    /\ UpdateWith(GetByDocId(cache, n), {n}, patch)
    /\ UNCHANGED <<next_id, backups, now>>

\* delete(doc_id) for a string
Delete(id) ==
    LET S == RemovedBy(cache, id)
    IN /\ modified < MaxUnflushed
       /\ SetStorage(CacheWrite(Storage, Drop(cache, S)))
       /\ last' = Returned([Call("delete") EXCEPT !.id = id], S # {})
       /\ UNCHANGED <<next_id, backups, now>>

\* delete(doc_id) for an integer: Table.remove(doc_ids=[n]) pops n
DeleteByDoc(n) ==
    LET c == Call("delete")
    IN IF n \notin DOMAIN cache
       THEN /\ last' = Raised(c, "DatabaseException")
            /\ UNCHANGED <<cache, file, modified, next_id, backups, now>>
       ELSE /\ modified < MaxUnflushed
            /\ SetStorage(CacheWrite(Storage, Drop(cache, {n})))
            /\ last' = Returned([c EXCEPT !.num = n], TRUE)
            /\ UNCHANGED <<next_id, backups, now>>

\* a read-only call and the result it returns
ReadCall(c) ==
    /\ SetStorage(CacheRead(Storage))
    /\ last' = c
    /\ UNCHANGED <<next_id, backups, now>>

\* get_by_id(doc_id) for a string
GetByIdCall(id) ==
    ReadCall([Call("get_by_id") EXCEPT
                 !.id = id, !.ok = GetByStrId(cache, id) # None])

\* get_by_id(doc_id) for an integer
GetByDocIdCall(n) ==
    ReadCall([Call("get_by_id") EXCEPT
                 !.num = n, !.ok = GetByDocId(cache, n) # None])

\* get_all()
GetAllCall == ReadCall([Call("get_all") EXCEPT !.num = Len(GetAll(cache))])

\* search(Query().id == id)
SearchCall(id) ==
    ReadCall([Call("search") EXCEPT
                 !.id = id, !.num = Len(Search(cache, id))])

\* count()
CountCall == ReadCall([Call("count") EXCEPT !.num = Count(cache)])

\* truncate()
Truncate ==
    /\ modified < MaxUnflushed
    /\ SetStorage(CacheWrite(Storage, EmptyTable))
    /\ next_id' = 0
    /\ last' = Call("truncate")
    /\ UNCHANGED <<backups, now>>

\* backup(): the default, timestamped destination
Backup ==
    LET path == DefaultBackupPath(now)
    IN /\ \/ path \in DOMAIN backups
          \/ Cardinality(DOMAIN backups \cap TimestampedPaths) < MaxBackups
       /\ backups' = CopyTo(backups, path, file)
       /\ last' = Call("backup")
       /\ UNCHANGED <<cache, file, modified, next_id, now>>

\* faulty variant: the handler keeps the cache it had before the restore
ReloadedStale(files, path) == cache

\* the TinyDB restore constructs over the restored file: a new cache that
\* reads the file
Reloaded(files, path) == files[path]

\* restore(backup_path)
Restore(path) ==
    LET c == Call("restore")
        closed == CacheFlush(Storage)
        saved == CopyTo(backups, PreRestorePath, closed.file)
    IN IF path \notin DOMAIN backups
       THEN /\ last' = Raised(c, "DatabaseException")
            /\ UNCHANGED <<cache, file, modified, next_id, backups, now>>
       ELSE /\ backups' = saved
            /\ file' = saved[path]
            /\ cache' = Reloaded(saved, path)
            /\ modified' = 0
            /\ next_id' = 0
            /\ last' = Returned(c, TRUE)
            /\ UNCHANGED now

\* time passes
Tick ==
    /\ now < MaxTime
    /\ now' = now + 1
    /\ last' = Call("tick")
    /\ UNCHANGED <<cache, file, modified, next_id, backups>>

\* ------------------------------------------------------------- registry
\* the registry after an accessor call has returned the instance inst
Registered(inst, made) ==
    [projects_db |-> inst, made |-> made,
     first |-> IF registry.first = 0 THEN inst ELSE registry.first]

\* TinyDBHandler(settings.projects_db_path, schema): a new TinyDB over the
\* file, with an empty cache that reads the file
Constructed ==
    /\ cache' = file
    /\ modified' = 0
    /\ next_id' = 0
    /\ UNCHANGED file

\* get_projects_db() called by t and run to its return, no other call
\* between its lines
GetProjectsDb(t) ==
    LET none == registry.projects_db = 0
        inst == IF none THEN registry.made + 1 ELSE registry.projects_db
    IN /\ callers[t].pc = "idle"
       /\ none => registry.made < MaxInstances
       /\ IF none THEN Constructed ELSE UNCHANGED <<cache, file, modified, next_id>>
       /\ registry' = Registered(inst, IF none THEN inst ELSE registry.made)
       /\ callers' = [callers EXCEPT ![t] =
                        [pc |-> "idle", built |-> IF none THEN inst ELSE 0, got |-> inst]]
       /\ last' = [Call("get_projects_db") EXCEPT !.num = inst]
       /\ UNCHANGED <<backups, now, hist, threads, Rest>>

\* initialize_database(): the collection file exists, get_projects_db() is
\* called and its result dropped
InitializeDatabase ==
    LET none == registry.projects_db = 0
        inst == IF none THEN registry.made + 1 ELSE registry.projects_db
    IN /\ none => registry.made < MaxInstances
       /\ IF none THEN Constructed ELSE UNCHANGED <<cache, file, modified, next_id>>
       /\ registry' = Registered(inst, IF none THEN inst ELSE registry.made)
       /\ last' = Call("initialize_database")
       /\ UNCHANGED <<backups, now, hist, callers, threads, Rest>>

\* close_all_databases(): close() flushes the cache of the registered
\* handler; projects_db = None
CloseAllDatabases ==
    /\ IF registry.projects_db # 0
       THEN SetStorage(CacheFlush(Storage))
       ELSE UNCHANGED <<cache, file, modified>>
    /\ registry' = [registry EXCEPT !.projects_db = 0]
    /\ last' = Call("close_all_databases")
    /\ UNCHANGED <<next_id, backups, now, hist, callers, threads, Rest>>

\* get_projects_db() line by line: t reads the global in `is None`
GetCheck(t) ==
    /\ callers[t].pc = "idle"
    /\ callers' = [callers EXCEPT ![t].pc =
                     IF registry.projects_db = 0 THEN "construct" ELSE "return"]
    /\ UNCHANGED <<cache, file, modified, next_id, backups, now, last, hist,
                   registry, threads, Rest>>

\* t evaluates TinyDBHandler(settings.projects_db_path, schema)
GetConstruct(t) ==
    /\ callers[t].pc = "construct"
    /\ registry.made < MaxInstances
    /\ registry' = [registry EXCEPT !.made = registry.made + 1]
    /\ callers' = [callers EXCEPT ![t].pc = "assign",
                                  ![t].built = registry.made + 1]
    /\ UNCHANGED <<cache, file, modified, next_id, backups, now, last, hist,
                   threads, Rest>>

\* t stores the handler it constructed in the global
GetAssign(t) ==
    /\ callers[t].pc = "assign"
    /\ registry' = [registry EXCEPT !.projects_db = callers[t].built]
    /\ callers' = [callers EXCEPT ![t].pc = "return"]
    /\ UNCHANGED <<cache, file, modified, next_id, backups, now, last, hist,
                   threads, Rest>>

\* return projects_db: t reads the global again
GetReturn(t) ==
    /\ callers[t].pc = "return"
    /\ callers' = [callers EXCEPT ![t].pc = "idle",
                                  ![t].got = registry.projects_db]
    /\ registry' = Registered(registry.projects_db, registry.made)
    /\ last' = [Call("get_projects_db") EXCEPT !.num = registry.projects_db]
    /\ UNCHANGED <<cache, file, modified, next_id, backups, now, hist, threads, Rest>>

\* ------------------------------------------------------------- threads
\* update(doc_id, data) by thread t, up to the storage call: the lookup
\* of the existing document and the validation of the merged view
UpdateLookupWith(t, id, n, existing, patch) ==
    LET c == Call("update")
    IN /\ threads[t].pc = "idle"
       /\ IF Missing(existing)
          THEN /\ last' = Returned(c, FALSE)
               /\ UNCHANGED threads
          ELSE IF ~ValidateData(MergedView(existing, patch))
          THEN /\ last' = Raised(c, "ValidationException")
               /\ UNCHANGED threads
          ELSE /\ threads' = [threads EXCEPT ![t] =
                                [pc |-> "write", id |-> id, num |-> n,
                                 patch |-> patch, existing |-> existing]]
               /\ UNCHANGED last
       /\ UNCHANGED <<cache, file, modified, next_id, backups, now, hist,
                      registry, callers, Rest>>

\* for a string
UpdateLookup(t, id, patch) ==
    UpdateLookupWith(t, id, 0, GetByStrId(cache, id), patch)

\* for an integer
UpdateLookupByDoc(t, n, patch) ==
    UpdateLookupWith(t, "", n, GetByDocId(cache, n), patch)

\* the rest of update by thread t: the timestamp, self.db.update on the
\* table as it is now, the flush on success, the result
UpdateWrite(t) ==
    LET c == Call("update")
        u == threads[t]
        S == IF u.id = "" THEN {u.num} ELSE UpdatedBy(cache, u.id)
        written == CacheWrite(Storage, UpdateDocs(cache, S, Patched(u.patch)))
    IN /\ u.pc = "write"
       /\ IF ~(S \subseteq DOMAIN cache)
          THEN /\ last' = Raised(c, "DatabaseException")
               /\ UNCHANGED <<cache, file, modified>>
          ELSE /\ SetStorage(IF S # {} THEN CacheFlush(written) ELSE written)
               /\ last' = Returned(c, S # {})
       /\ threads' = [threads EXCEPT ![t] = NoUpdate]
       /\ UNCHANGED <<next_id, backups, now, hist, registry, callers, Rest>>

\* ------------------------------------------------------------- failures
\* CachingMiddleware.flush() when the write to the file fails: the cache
\* and its count of unflushed writes stay, the file is not replaced
CacheFlushFailed(st) == st

\* insert(data) when the flush after self.db.insert raises
InsertFlushFails(r) ==
    LET d == NextDocId
        st == CacheFlushFailed(CacheWrite(Storage, Put(cache, d, Stamped(r, d))))
    IN /\ ValidateData(r)
       /\ d <= MaxDocId
       /\ d \notin DOMAIN cache
       /\ modified < MaxUnflushed
       /\ next_id' = d + 1
       /\ SetStorage(st)
       /\ last' = Raised(Call("insert"), "DatabaseException")
       /\ UNCHANGED <<backups, now>>

\* update(doc_id, data) for a string when the flush after self.db.update
\* raises
UpdateFlushFails(id, patch) ==
    LET existing == GetByStrId(cache, id)
        st == CacheFlushFailed(
                 CacheWrite(Storage,
                            UpdateDocs(cache, UpdatedBy(cache, id), Patched(patch))))
    IN /\ ~Missing(existing)
       /\ ValidateData(MergedView(existing, patch))
       /\ modified < MaxUnflushed
       /\ SetStorage(st)
       /\ last' = Raised(Call("update"), "DatabaseException")
       /\ UNCHANGED <<next_id, backups, now>>

\* restore(backup_path) when the safety backup raises: the TinyDB has been
\* closed, nothing has been copied
RestoreBackupFails(path) ==
    /\ path \in DOMAIN backups
    /\ SetStorage(CacheFlush(Storage))
    /\ opened' = FALSE
    /\ last' = Raised(Call("restore"), "DatabaseException")
    /\ UNCHANGED <<next_id, backups, now, hist, registry, callers, threads,
                   schema, project_files, engines>>

\* restore(backup_path) when the copy of the backup over the collection
\* file raises: the TinyDB has been closed, the safety backup is written
RestoreCopyFails(path) ==
    LET closed == CacheFlush(Storage)
    IN /\ path \in DOMAIN backups
       /\ SetStorage(closed)
       /\ backups' = CopyTo(backups, PreRestorePath, closed.file)
       /\ opened' = FALSE
       /\ last' = Raised(Call("restore"), "DatabaseException")
       /\ UNCHANGED <<next_id, now, hist, registry, callers, threads,
                      schema, project_files, engines>>

\* ------------------------------------------------------------- shutdown
\* the module's eight globals, one handler per collection: "none" before the
\* accessor has constructed it, "open" with every write flushed, "dirty"
\* with writes held in its cache, "closed" once close() has flushed it and
\* released the file
Live == {"open", "dirty"}

\* the globals close_all_databases declares and closes, the same three
\* initialize_database constructs
ClosedAtShutdown == {"projects", "templates", "orchestration_sessions"}

EnginesOnly ==
    UNCHANGED <<cache, file, modified, next_id, backups, now, hist, registry,
                callers, threads, opened, schema, project_files>>

\* get_<collection>_db(): construct the handler when the global is None
GetEngine(c) ==
    /\ last.op # "shutdown"
    /\ engines' = IF engines[c] \in Live THEN engines
                  ELSE [engines EXCEPT ![c] = "open"]
    /\ last' = Call("get_db")
    /\ EnginesOnly

\* initialize_database(), called by lifespan at startup
InitializeEngines ==
    /\ last.op # "shutdown"
    /\ engines' = [c \in Collections |->
                     IF c \in ClosedAtShutdown /\ engines[c] \notin Live
                     THEN "open" ELSE engines[c]]
    /\ last' = Call("initialize_database")
    /\ EnginesOnly

\* insert or update on the collection's handler: the write is flushed
FlushedWrite(c) ==
    /\ last.op # "shutdown"
    /\ engines[c] \in Live
    /\ engines' = [engines EXCEPT ![c] = "open"]
    /\ last' = Call("insert")
    /\ EnginesOnly

\* delete or truncate on the collection's handler: no flush follows
CachedWrite(c) ==
    /\ last.op # "shutdown"
    /\ engines[c] \in Live
    /\ engines' = [engines EXCEPT ![c] = "dirty"]
    /\ last' = Call("delete")
    /\ EnginesOnly

\* close_all_databases()
CloseEngines ==
    /\ last.op # "shutdown"
    /\ engines' = [c \in Collections |->
                     IF c \in ClosedAtShutdown /\ engines[c] \in Live
                     THEN "closed" ELSE engines[c]]
    /\ last' = Call("close_all_databases")
    /\ EnginesOnly

\* lifespan after its yield: one log line
LifespanShutdown ==
    /\ last.op # "shutdown"
    /\ last' = Call("shutdown")
    /\ UNCHANGED engines
    /\ EnginesOnly

\* ------------------------------------------------------------- endpoints
\* POST /project-files: create_project_file for the project P; the file
\* record is inserted under a new uuid
CreateProjectFile(P) ==
    LET c == [Call("create_project_file") EXCEPT !.id = P]
        d == Max(DOMAIN project_files \cup {0}) + 1
    IN /\ IF GetByStrId(cache, P) = None
          THEN /\ last' = Raised(c, "HTTP_404_NOT_FOUND")
               /\ UNCHANGED project_files
          ELSE /\ d <= MaxFiles
               /\ project_files' =
                     Put(project_files, d, [id |-> Uuid4(d), project_id |-> P])
               /\ last' = Returned([c EXCEPT !.num = d], TRUE)
       /\ UNCHANGED <<cache, file, modified, next_id, backups, now, hist,
                      registry, callers, threads, opened, schema, engines>>

\* DELETE /projects/{project_id}: delete_project
DeleteProject(P) ==
    LET c == [Call("delete_project") EXCEPT !.id = P]
        S == RemovedBy(cache, P)
    IN /\ IF GetByStrId(cache, P) = None
          THEN /\ last' = Raised(c, "HTTP_404_NOT_FOUND")
               /\ UNCHANGED <<cache, file, modified>>
          ELSE /\ modified < MaxUnflushed
               /\ SetStorage(CacheWrite(Storage, Drop(cache, S)))
               /\ last' = IF S # {} THEN Returned(c, TRUE)
                                    ELSE Raised(c, "HTTP_500_INTERNAL_SERVER_ERROR")
       /\ UNCHANGED <<next_id, backups, now, hist, registry, callers, threads,
                      opened, schema, project_files, engines>>

\* ------------------------------------------------------------- process
\* close(): TinyDB.close() flushes the cache and closes the file
Close ==
    /\ opened
    /\ SetStorage(CacheFlush(Storage))
    /\ opened' = FALSE
    /\ last' = Call("close")
    /\ UNCHANGED <<next_id, backups, now, hist, registry, callers, threads,
                   schema, project_files, engines>>

\* the process ends, closed or not, and the next process constructs the
\* handler over the collection file
Restart ==
    /\ Constructed
    /\ opened' = TRUE
    /\ last' = Call("init")
    /\ UNCHANGED <<backups, now, hist, registry, callers, threads,
                   schema, project_files, engines>>

\* a call on a handler one caller holds: no registry call, no other thread
Direct == UNCHANGED <<hist, registry, callers, threads, Rest>>

\* the history a run with backup and restore keeps of its calls
Recorded ==
    LET issuedNow ==
            IF last'.op = "insert" /\ last'.err = "none" THEN last'.num ELSE 0
    IN /\ hist' = [issued |-> Max({hist.issued, issuedNow}),
                   snap |-> IF last'.op = "backup"
                            THEN CopyTo(hist.snap, DefaultBackupPath(now), cache)
                            ELSE hist.snap]
       /\ UNCHANGED <<registry, callers, threads, Rest>>

\* the store's own operations, with every input, at one instant
Next ==
    \/ \E r \in InsertInputs : Insert(r) /\ Direct
    \/ \E id \in Ids, patch \in PatchInputs : Update(id, patch) /\ Direct
    \/ \E n \in DocIds, patch \in PatchInputs : UpdateByDoc(n, patch) /\ Direct
    \/ \E id \in Ids : Delete(id) /\ Direct
    \/ \E n \in DocIds : DeleteByDoc(n) /\ Direct
    \/ Truncate /\ Direct

\* inserts, updates and deletes while time passes
NextClock ==
    \/ \E r \in BackupInserts : Insert(r) /\ Direct
    \/ \E id \in Ids, patch \in ClockPatches : Update(id, patch) /\ Direct
    \/ \E n \in DocIds, patch \in ClockPatches : UpdateByDoc(n, patch) /\ Direct
    \/ \E id \in Ids : Delete(id) /\ Direct
    \/ Tick /\ Direct

\* inserts, re-keying updates and deletes with restore from the backups on disk
NextRestore ==
    \/ \E r \in BackupInserts : Insert(r) /\ Direct
    \/ \E id \in Ids, patch \in BackupPatches : Update(id, patch) /\ Direct
    \/ \E id \in Ids : Delete(id) /\ Direct
    \/ \E n \in DocIds : DeleteByDoc(n) /\ Direct
    \/ \E path \in DOMAIN backups : Restore(path) /\ Direct

\* the store with backup and restore
NextBackup ==
    \/ \E r \in BackupInserts : Insert(r) /\ Recorded
    \/ \E id \in Ids : Delete(id) /\ Recorded
    \/ \E n \in DocIds : DeleteByDoc(n) /\ Recorded
    \/ Truncate /\ Recorded
    \/ Backup /\ Recorded
    \/ \E path \in DOMAIN backups \cup {MissingPath} : Restore(path) /\ Recorded
    \/ Tick /\ Recorded

\* the read calls between inserts and deletes
NextReads ==
    \/ \E r \in BackupInserts : Insert(r) /\ Direct
    \/ \E id \in Ids : Delete(id) /\ Direct
    \/ \E n \in DocIds : DeleteByDoc(n) /\ Direct
    \/ \E id \in Ids : GetByIdCall(id) /\ Direct
    \/ \E n \in DocIds : GetByDocIdCall(n) /\ Direct
    \/ GetAllCall /\ Direct
    \/ \E id \in Ids : SearchCall(id) /\ Direct
    \/ CountCall /\ Direct

\* the store over the life of several processes
NextDurable ==
    \/ \E r \in BackupInserts : opened /\ Insert(r) /\ Direct
    \/ \E id \in Ids, patch \in ThreadPatches :
          opened /\ Update(id, patch) /\ Direct
    \/ \E id \in Ids : opened /\ Delete(id) /\ Direct
    \/ opened /\ Truncate /\ Direct
    \/ \E path \in DOMAIN backups : opened /\ Restore(path) /\ Direct
    \/ Close
    \/ Restart

\* the endpoints that create projects and their files and delete projects
NextProjects ==
    \/ \E r \in BackupInserts : Insert(r) /\ Direct
    \/ \E P \in Ids : CreateProjectFile(P)
    \/ \E P \in Ids : DeleteProject(P)

\* the store on a file system whose writes and copies can fail
NextFaults ==
    \/ \E r \in BackupInserts : opened /\ Insert(r) /\ Direct
    \/ \E r \in BackupInserts : opened /\ InsertFlushFails(r) /\ Direct
    \/ \E id \in Ids, patch \in ThreadPatches :
          opened /\ Update(id, patch) /\ Direct
    \/ \E id \in Ids, patch \in ThreadPatches :
          opened /\ UpdateFlushFails(id, patch) /\ Direct
    \/ \E id \in Ids : opened /\ Delete(id) /\ Direct
    \/ \E path \in DOMAIN backups \cup {MissingPath} :
          opened /\ Restore(path) /\ Direct
    \/ \E path \in DOMAIN backups : opened /\ RestoreBackupFails(path)
    \/ \E path \in DOMAIN backups : opened /\ RestoreCopyFails(path)
    \/ Restart

\* the eight handlers of the process from startup to shutdown
NextShutdown ==
    \/ InitializeEngines
    \/ \E c \in Collections : GetEngine(c)
    \/ \E c \in Collections : FlushedWrite(c)
    \/ \E c \in Collections : CachedWrite(c)
    \/ CloseEngines
    \/ LifespanShutdown

\* the store of a collection whose schema forbids additional properties
NextStrict ==
    \/ \E r \in StrictInserts : Insert(r) /\ Direct
    \/ \E id \in Ids, patch \in StrictPatches : Update(id, patch) /\ Direct
    \/ \E id \in Ids : Delete(id) /\ Direct
    \/ Tick /\ Direct

\* the registry, its calls made one after another, and calls on the
\* registered handler
NextRegistry ==
    \/ \E t \in Threads : GetProjectsDb(t)
    \/ InitializeDatabase
    \/ CloseAllDatabases
    \/ \E r \in BackupInserts : registry.projects_db # 0 /\ Insert(r) /\ Direct
    \/ \E id \in Ids : registry.projects_db # 0 /\ Delete(id) /\ Direct

\* threads inside get_projects_db at the same time
NextAccessors ==
    \/ \E t \in Threads : GetCheck(t)
    \/ \E t \in Threads : GetConstruct(t)
    \/ \E t \in Threads : GetAssign(t)
    \/ \E t \in Threads : GetReturn(t)

\* threads that call update on one handler while records are inserted
\* and deleted
NextThreads ==
    \/ \E t \in Threads, id \in Ids, patch \in ThreadPatches :
          UpdateLookup(t, id, patch)
    \/ \E t \in Threads, n \in DocIds, patch \in ThreadPatches :
          UpdateLookupByDoc(t, n, patch)
    \/ \E t \in Threads : UpdateWrite(t)
    \/ \E r \in BackupInserts : Insert(r) /\ Direct
    \/ \E id \in Ids : Delete(id) /\ Direct
    \/ \E n \in DocIds : DeleteByDoc(n) /\ Direct

Spec == Init /\ [][Next]_vars
SpecClock == Init /\ [][NextClock]_vars
SpecBackup == Init /\ [][NextBackup]_vars
SpecRestore == InitWithBackup /\ [][NextRestore]_vars
SpecDurable == InitWithBackup /\ [][NextDurable]_vars
SpecProjects == Init /\ [][NextProjects]_vars
SpecFaults == InitWithBackup /\ [][NextFaults]_vars
SpecShutdown == Init /\ [][NextShutdown]_vars
SpecStrict == InitStrict /\ [][NextStrict]_vars
SpecReads == Init /\ [][NextReads]_vars
SpecRegistry == Init /\ [][NextRegistry]_vars
SpecAccessors == Init /\ [][NextAccessors]_vars
SpecThreads == Init /\ [][NextThreads]_vars

\* ============================================================= properties
EngineFields == {"id", "created_at", "updated_at"}

\* doc is the record r, up to the fields the Engine assigns
SameButAssigned(doc, r) ==
    /\ doc # None
    /\ DOMAIN r \subseteq DOMAIN doc
    /\ DOMAIN doc \subseteq DOMAIN r \cup EngineFields
    /\ \A f \in DOMAIN r : doc[f] = r[f]

\* C1: an insert of a record that fails the schema raises ValidationError
\* and mutates nothing: count(), get_all() and the backing file are as before.
C1_InsertValidationAtomic ==
    [][\A r \in InsertInputs :
          (last'.op = "insert" /\ ~SchemaValid(r) /\ Insert(r)) =>
             /\ last'.err = "ValidationException"
             /\ Count(cache') = Count(cache)
             /\ GetAll(cache') = GetAll(cache)
             /\ cache' = cache
             /\ file' = file]_vars

\* scenario C: a rejected insert into a collection that holds one record
C1_Witness ==
    /\ last.op = "insert"
    /\ last.err = "ValidationException"
    /\ Count(cache) = 1

\* C2: an update whose merged view (existing record overlaid with the patch)
\* violates the schema raises ValidationError and leaves the stored records,
\* the cache and the backing file unchanged.
C2_UpdateValidatesMerged ==
    [][/\ \A id \in Ids, patch \in PatchInputs :
            (/\ last'.op = "update"
             /\ GetByStrId(cache, id) # None
             /\ ~SchemaValid(Merge(GetByStrId(cache, id), patch))
             /\ Update(id, patch)) =>
               /\ last'.err = "ValidationException"
               /\ cache' = cache /\ file' = file /\ modified' = modified
       /\ \A n \in DocIds, patch \in PatchInputs :
            (/\ last'.op = "update"
             /\ GetByDocId(cache, n) # None
             /\ ~SchemaValid(Merge(GetByDocId(cache, n), patch))
             /\ UpdateByDoc(n, patch)) =>
               /\ last'.err = "ValidationException"
               /\ cache' = cache /\ file' = file /\ modified' = modified]_vars

\* an update was rejected while records are stored
C2_Witness ==
    /\ last.op = "update"
    /\ last.err = "ValidationException"
    /\ Count(cache) >= 1

\* what get_by_id(id) is claimed to return after update(id, patch)
Overlaid(existing, patch) ==
    Merge(Merge(existing, patch), [updated_at |-> IsoFormat(now)])

\* C3 as stated: for every live record with application id `id` and every
\* patch, a successful update(id, patch) followed by get_by_id(id) returns
\* the prior record with the patch overlaid and updated_at refreshed.
C3_AsStated ==
    [][\A id \in Ids, patch \in ClockPatches :
          (last'.op = "update" /\ last'.ok /\ Update(id, patch)) =>
             GetByStrId(cache', id) = Overlaid(GetByStrId(cache, id), patch)]_vars

\* C3 amended: the same, for every patch that leaves the id field alone.
C3_UpdateOverlay ==
    [][\A id \in Ids, patch \in ClockPatches :
          (/\ last'.op = "update" /\ last'.ok
           /\ Has(patch, "id") => patch["id"] = id
           /\ Update(id, patch)) =>
             GetByStrId(cache', id) = Overlaid(GetByStrId(cache, id), patch)]_vars

\* scenario B: after an update, status is archived and name is untouched
C3_Witness ==
    /\ last.op = "update"
    /\ last.ok
    /\ GetByStrId(cache, "p1") # None
    /\ GetByStrId(cache, "p1")["status"] = "archived"
    /\ GetByStrId(cache, "p1")["name"] = "Demo"
    /\ GetByStrId(cache, "p1")["updated_at"] = IsoFormat(now)

\* C4 as stated: for every schema-valid record r, insert(r) succeeds and
\* get_by_id, by the returned sequence number and by the application id,
\* yields r up to the fields the Engine assigned.
C4_AsStated ==
    [][\A r \in InsertInputs :
          (last'.op = "insert" /\ SchemaValid(r) /\ Insert(r)) =>
             /\ last'.err = "none"
             /\ SameButAssigned(GetByDocId(cache', last'.num), r)
             /\ SameButAssigned(
                   GetByStrId(cache', GetByDocId(cache', last'.num)["id"]), r)]_vars

\* C4 amended: by the sequence number always; by the application id when
\* no live record carried that id before the insert.
C4_InsertRoundTrip ==
    [][\A r \in InsertInputs :
          (last'.op = "insert" /\ SchemaValid(r) /\ Insert(r)) =>
             /\ last'.err = "none"
             /\ SameButAssigned(GetByDocId(cache', last'.num), r)
             /\ (Has(r, "id") /\ Matching(cache, r["id"]) = {}) =>
                   SameButAssigned(GetByStrId(cache', r["id"]), r)]_vars

\* scenario A: after the insert the collection holds one record with name Demo
C4_Witness ==
    /\ last.op = "insert"
    /\ last.err = "none"
    /\ Count(cache) = 1
    /\ GetByStrId(cache, "p1") # None
    /\ GetByStrId(cache, "p1")["name"] = "Demo"
    /\ GetByDocId(cache, last.num) = GetByStrId(cache, "p1")

\* C5: when insert has returned a sequence number, or update has returned
\* true, the backing file's table equals the cached table.
C5_FlushedOnReturn ==
    ((last.op = "insert" /\ last.err = "none") \/ (last.op = "update" /\ last.ok))
        => (file = cache /\ modified = 0)

\* an update has returned true on a collection with records
C5_Witness ==
    /\ last.op = "update"
    /\ last.ok
    /\ Count(cache) = 2
    /\ file = cache

\* C6 as stated: a restore from a backup that backup() took when the record
\* set was S leaves the record set equal to S, whatever mutations preceded
\* the backup or came between the two.
C6_AsStated ==
    [][\A path \in DOMAIN hist.snap :
          (Restore(path) /\ last'.ok) =>
             GetAll(cache') = GetAll(hist.snap[path])]_vars

\* C7 as stated: the safety backup a successful restore writes holds the
\* record set S of the moment restore was called, and a restore from it,
\* called next, returns the record set to S.
C7_AsStated ==
    [][/\ \A path \in DOMAIN backups :
            (Restore(path) /\ last'.ok) =>
               GetAll(backups'[PreRestorePath]) = GetAll(cache)
       /\ (/\ last.op = "restore" /\ last.ok
           /\ Restore(PreRestorePath) /\ last'.ok) =>
             GetAll(cache') = GetAll(backups[PreRestorePath])]_vars

\* C8 as stated: restore of a path that does not exist fails with the
\* not-found error kind, not with the storage-failure kind.
C8_AsStated ==
    [][Restore(MissingPath) =>
          (last'.err = "NotFoundException" /\ last'.err # "DatabaseException")]_vars

\* C9 as stated: across insert, delete, truncate and restore, every insert
\* returns a sequence number strictly greater than every number an earlier
\* insert returned.
C9_AsStated ==
    [][(last'.op = "insert" /\ last'.err = "none") => last'.num > hist.issued]_vars

\* after delete returns, get_by_id of the same identifier finds nothing
DeleteLeavesNotFound ==
    /\ \A id \in Ids :
          (last'.op = "delete" /\ Delete(id)) => GetByStrId(cache', id) = None
    /\ \A n \in DocIds :
          (last'.op = "delete" /\ last'.err = "none" /\ DeleteByDoc(n)) =>
             GetByDocId(cache', n) = None

C11_AsStated ==
    [][(last'.op = "delete" /\ last'.ok) =>
          Count(cache') = Count(cache) - 1]_vars

\* C11 amended: whenever delete returns true, count() decreases by the
\* number of live records that matched the identifier: by exactly one for a
\* sequence number, and for an application id carried by exactly one
\* live record.
C11_CountDropsByMatches ==
    [][/\ \A id \in Ids :
            (last'.op = "delete" /\ last'.ok /\ Delete(id)) =>
               /\ Count(cache') = Count(cache) - Cardinality(Matching(cache, id))
               /\ Cardinality(Matching(cache, id)) = 1 =>
                     Count(cache') = Count(cache) - 1
       /\ \A n \in DocIds :
            (last'.op = "delete" /\ last'.ok /\ DeleteByDoc(n)) =>
               Count(cache') = Count(cache) - 1]_vars

\* one delete("p1") has removed both records that carried the id p1: the
\* file, not yet flushed, still holds them
C11_Witness ==
    /\ last.op = "delete"
    /\ last.ok
    /\ last.id = "p1"
    /\ Count(cache) = 0
    /\ modified = 1
    /\ Cardinality(Matching(file, "p1")) = 2

\* C12 as stated: delete returns true iff at least one live record matched
\* the identifier and was removed; a delete of the same identifier repeated
\* right after it returns false and changes nothing.
C12_AsStated ==
    [][/\ \A id \in Ids :
            (last'.op = "delete" /\ Delete(id)) =>
               /\ last'.err = "none"
               /\ last'.ok <=> Matching(cache, id) # {}
               /\ Matching(cache', id) = {}
               /\ (last.op = "delete" /\ last.err = "none" /\ last.id = id) =>
                     (~last'.ok /\ cache' = cache /\ file' = file)
       /\ \A n \in DocIds :
            (last'.op = "delete" /\ DeleteByDoc(n)) =>
               /\ last'.err = "none"
               /\ last'.ok <=> n \in DOMAIN cache
               /\ n \notin DOMAIN cache'
               /\ (/\ last.op = "delete" /\ last.err = "none"
                   /\ last.id = "" /\ last.num = n) =>
                     (~last'.ok /\ cache' = cache /\ file' = file)]_vars

\* C13: an update whose identifier matches no live record returns false
\* and raises nothing, also for a patch that fails the schema, and leaves
\* the cache and the backing file unchanged.
C13_UpdateMissingReturnsFalse ==
    [][/\ \A id \in Ids, patch \in PatchInputs :
            (/\ last'.op = "update"
             /\ Matching(cache, id) = {}
             /\ Update(id, patch)) =>
               /\ last'.err = "none" /\ ~last'.ok
               /\ cache' = cache /\ file' = file /\ modified' = modified
       /\ \A n \in DocIds, patch \in PatchInputs :
            (/\ last'.op = "update"
             /\ n \notin DOMAIN cache
             /\ UpdateByDoc(n, patch)) =>
               /\ last'.err = "none" /\ ~last'.ok
               /\ cache' = cache /\ file' = file /\ modified' = modified]_vars

\* an update has returned false on a collection that holds a record under
\* another identifier
C13_Witness ==
    /\ last.op = "update"
    /\ last.err = "none"
    /\ ~last.ok
    /\ Count(cache) = 1
    /\ GetByStrId(cache, "p1") = None

\* C14: insert accepts a record whose application id a live record already
\* carries: it adds one live record under a sequence number no live record
\* has, so two inserts of the same id leave two records with distinct
\* sequence numbers, and get_by_id of that id then returns the first match,
\* the record with the smaller sequence number.
C14_DuplicateIdsFirstMatch ==
    [][\A r \in InsertInputs :
          (/\ last'.op = "insert"
           /\ SchemaValid(r)
           /\ Matching(cache, r["id"]) # {}
           /\ Insert(r)) =>
             /\ last'.err = "none"
             /\ last'.num \notin DOMAIN cache
             /\ Count(cache') = Count(cache) + 1
             /\ Matching(cache', r["id"]) = Matching(cache, r["id"]) \cup {last'.num}
             /\ \A n \in Matching(cache, r["id"]) : n < last'.num
             /\ GetByStrId(cache', r["id"]) = cache'[Min(Matching(cache', r["id"]))]
             /\ GetByStrId(cache', r["id"]) = GetByStrId(cache, r["id"])]_vars

\* two live records carry the id p1 after the second insert
C14_Witness ==
    /\ last.op = "insert"
    /\ last.err = "none"
    /\ last.num = 2
    /\ Matching(cache, "p1") = {1, 2}
    /\ GetByStrId(cache, "p1") = cache[1]
    /\ cache[1] # cache[2]

\* what insert is claimed to store for r: r with the absent Engine fields set
Completed(r, d) ==
    Merge([id |-> Uuid4(d), created_at |-> IsoFormat(now),
           updated_at |-> IsoFormat(now)], r)

\* C15 as stated: an insert of a record that lacks id, or lacks created_at
\* and updated_at, and is otherwise acceptable to the collection, succeeds,
\* and the stored record carries an Engine-generated id, or both timestamps.
C15_AsStated ==
    [][\A r \in InsertInputs :
          (/\ last'.op = "insert"
           /\ ~Has(r, "id") \/ (~Has(r, "created_at") /\ ~Has(r, "updated_at"))
           /\ SchemaValid(Completed(r, NextDocId))
           /\ Insert(r)) =>
             /\ last'.err = "none"
             /\ GetByDocId(cache', last'.num) = Completed(r, NextDocId)]_vars

\* C16: insert stores a created_at and an updated_at the caller supplied
\* unchanged, and every successful update stores updated_at = the time of
\* that update in each record it matched, whatever updated_at the patch
\* carried; created_at changes only if the patch names it.
C16_TimestampPolicy ==
    [][/\ \A r \in BackupInserts :
            (last'.op = "insert" /\ last'.err = "none" /\ Insert(r)) =>
               /\ Has(r, "created_at") =>
                     cache'[last'.num]["created_at"] = r["created_at"]
               /\ Has(r, "updated_at") =>
                     cache'[last'.num]["updated_at"] = r["updated_at"]
       /\ \A id \in Ids, patch \in ClockPatches :
            (last'.op = "update" /\ last'.ok /\ Matching(cache, id) # {}) =>
               \/ \A n \in Matching(cache, id) :
                     /\ cache'[n]["updated_at"] = IsoFormat(now)
                     /\ ~Has(patch, "created_at") =>
                           cache'[n]["created_at"] = cache[n]["created_at"]
               \/ ~Update(id, patch)
       /\ \A n \in DocIds, patch \in ClockPatches :
            (last'.op = "update" /\ last'.ok /\ n \in DOMAIN cache) =>
               \/ /\ cache'[n]["updated_at"] = IsoFormat(now)
                  /\ ~Has(patch, "created_at") =>
                        cache'[n]["created_at"] = cache[n]["created_at"]
               \/ ~UpdateByDoc(n, patch)]_vars

\* an update whose patch carried the caller's updated_at has stored the
\* time of the update instead, next to a record that keeps the
\* timestamps its insert was given
C16_Witness ==
    /\ last.op = "update"
    /\ last.ok
    /\ now = MaxTime
    /\ Count(cache) = 2
    /\ cache[1]["updated_at"] = IsoFormat(now)
    /\ cache[1]["created_at"] = CallerTime
    /\ cache[2]["updated_at"] = CallerTime
    /\ cache[2]["created_at"] = CallerTime

\* C17 as stated: every call of get_projects_db returns the instance its
\* first call returned, across initialize_database and close_all_databases,
\* so no two callers hold different handlers of the projects file.
C17_AsStated ==
    /\ \A t \in Threads :
          callers[t].got # 0 => callers[t].got = registry.first
    /\ \A t, u \in Threads :
          (callers[t].got # 0 /\ callers[u].got # 0) =>
             callers[t].got = callers[u].got

\* C18 as stated: when threads call get_projects_db at the same time
\* while projects_db is None, the handler is constructed exactly once and
\* every call returns that one instance.
C18_AsStated ==
    /\ registry.made <= 1
    /\ \A t \in Threads :
          callers[t].got # 0 => callers[t].got = 1

\* the result and the records of update(identifier, patch) run as one
\* step on the collection as it is: existing is the record the identifier
\* finds now, S the records it matches now
UpdateAtOnce(existing, S, patch) ==
    LET c == Call("update")
    IN IF existing = None
       THEN last' = Returned(c, FALSE) /\ cache' = cache
       ELSE IF ~SchemaValid(Merge(existing, patch))
       THEN last' = Raised(c, "ValidationException") /\ cache' = cache
       ELSE last' = Returned(c, TRUE) /\ cache' = UpdateDocs(cache, S, Patched(patch))

\* C19 as stated: with threads calling one handler, each update takes
\* effect atomically, its lookup, validation and write not interleaved with
\* another mutation: when a thread's update writes, the result of the call
\* and the records are those of the whole update run as one step on the
\* collection as it then is, so that the run equals a sequential order.
C19_AsStated ==
    [][\A t \in Threads :
          UpdateWrite(t) =>
             IF threads[t].id = ""
             THEN UpdateAtOnce(GetByDocId(cache, threads[t].num),
                               {threads[t].num}, threads[t].patch)
             ELSE UpdateAtOnce(GetByStrId(cache, threads[t].id),
                               Matching(cache, threads[t].id),
                               threads[t].patch)]_vars

\* C20 as stated: backup flushes before it copies, so the backup file
\* equals the in-memory record set of the moment backup() is called,
\* deletes and truncates before it included.
C20_AsStated ==
    [][Backup =>
          /\ file' = cache
          /\ GetAll(backups'[DefaultBackupPath(now)]) = GetAll(cache)]_vars

C22_AsStated ==
    [][Backup =>
          /\ DefaultBackupPath(now) \notin DOMAIN backups
          /\ \A p \in DOMAIN backups : backups'[p] = backups[p]]_vars

\* C29 as stated: an update addressed by a string id changes exactly one
\* record, the first match, whose merged view was validated; every other
\* record of the collection is left unchanged.
C29_AsStated ==
    [][\A id \in Ids, patch \in PatchInputs :
          (last'.op = "update" /\ last'.ok /\ Matching(cache, id) # {}) =>
             \/ \A n \in DOMAIN cache :
                   cache'[n] = IF n = Min(Matching(cache, id))
                               THEN Merge(cache[n], Patched(patch))
                               ELSE cache[n]
             \/ ~Update(id, patch)]_vars

\* C29 amended: an update addressed by a string id changes every live
\* record that carries that id, exactly one when one record carries it:
\* each receives the patch and the timestamp, though only the merged view
\* of the first match was validated; every record with another id is left
\* unchanged and no record is added or removed.
C29_UpdatePatchesAllMatches ==
    [][\A id \in Ids, patch \in PatchInputs :
          (last'.op = "update" /\ last'.ok /\ Matching(cache, id) # {}) =>
             \/ /\ DOMAIN cache' = DOMAIN cache
                /\ SchemaValid(Merge(cache[Min(Matching(cache, id))], patch))
                /\ \A n \in DOMAIN cache :
                      cache'[n] = IF n \in Matching(cache, id)
                                  THEN Merge(cache[n], Patched(patch))
                                  ELSE cache[n]
             \/ ~Update(id, patch)]_vars

\* one update("p1", {"status": "archived"}) has patched both records that
\* carry the id p1
C29_Witness ==
    /\ last.op = "update"
    /\ last.ok
    /\ Matching(cache, "p1") = {1, 2}
    /\ cache[1]["status"] = "archived"
    /\ cache[2]["status"] = "archived"
    /\ cache[1]["updated_at"] = IsoFormat(now)
    /\ cache[2]["updated_at"] = IsoFormat(now)

ReadOps == {"get_by_id", "get_all", "search", "count"}

\* C27: get_by_id, get_all, search and count never change the collection:
\* the cached table, the backing file, the count of unflushed writes and
\* the next sequence number are after the call what they were before it,
\* whether or not the identifier matches.
C27_ReadsChangeNothing ==
    [][last'.op \in ReadOps =>
          /\ cache' = cache
          /\ file' = file
          /\ modified' = modified
          /\ next_id' = next_id
          /\ backups' = backups]_vars

\* a get_by_id that found nothing, called while a delete is unflushed
C27_Witness ==
    /\ last.op = "get_by_id"
    /\ ~last.ok
    /\ modified = 1
    /\ file # cache
    /\ Count(cache) = 1

\* C30: delete and truncate change only the cache: when either returns
\* the backing file holds what it held before; the file changes only when
\* an insert or an update succeeds, on close, or on a restore; and a
\* process that ends without close starts over from the file, without
\* the deletion.
C30_DeletesStayInCache ==
    [][/\ last'.op \in {"delete", "truncate"} => file' = file
       /\ file' # file =>
             \/ last'.op = "insert" /\ last'.err = "none"
             \/ last'.op = "update" /\ last'.ok
             \/ last'.op = "close"
             \/ last'.op = "restore" /\ last'.ok
       /\ (opened /\ last'.op = "init") =>
             (cache' = file /\ file' = file)]_vars

\* a delete has returned true and the file still holds the record
C30_Witness ==
    /\ last.op = "delete"
    /\ last.ok
    /\ opened
    /\ modified = 1
    /\ GetByStrId(cache, last.id) = None
    /\ GetByStrId(file, last.id) # None

\* C23 as stated: when the delete-project endpoint has returned success
\* for the project P, P is gone from the projects collection and no record
\* of project_files has project_id = P.
C23_AsStated ==
    (last.op = "delete_project" /\ last.ok) =>
       /\ GetByStrId(cache, last.id) = None
       /\ \A n \in DOMAIN project_files :
             project_files[n]["project_id"] # last.id

\* C24 as stated: when insert or update raises the storage error because
\* the flush to the backing file failed, the call has had no effect:
\* get_by_id, get_all, search and count give what they gave before it.
C24_AsStated ==
    [][(last'.op \in {"insert", "update"} /\ last'.err = "DatabaseException") =>
          /\ cache' = cache
          /\ GetAll(cache') = GetAll(cache)
          /\ Count(cache') = Count(cache)]_vars

\* C25 as stated: whenever restore raises, for a missing backup file or
\* for a failure of the safety backup or of the copy, the handler is left
\* open and usable and the record set and the backing file are what they
\* were before the call.
C25_AsStated ==
    [][(last'.op = "restore" /\ last'.err # "none") =>
          /\ opened'
          /\ cache' = cache
          /\ file' = file]_vars

\* C26 as stated: once the shutdown path has run, after the lifespan's
\* shutdown part and after close_all_databases alike, every handler that
\* was constructed, for each of the eight collections, has been closed:
\* none is left open or holding unflushed writes.
C26_AsStated ==
    last.op \in {"shutdown", "close_all_databases"} =>
        \A c \in Collections : engines[c] \notin Live

\* C28 as stated: in a schema-checked collection every stored record
\* satisfies the collection's schema after any sequence of inserts and
\* updates, also under task_definitions and project_structure, whose
\* schemas forbid additional properties and do not declare the fields the
\* handler stamps after validation.
C28_AsStated == \A d \in DOMAIN cache : ValidateData(cache[d])

====
